---- MODULE Spec2Model ----
(***************************************************************************)
(* Model of eval.py, the submission evaluation pipeline:                   *)
(*   main -> extract_submissions -> Evaluator.evaluate                     *)
(*        -> extract_tar, build_subm, find_binary, TestRunner.run          *)
(*        -> score_subm                                                    *)
(* together with CommandExecutor.run / _run_bash.                          *)
(*                                                                         *)
(* Spec        a run of main in batch or single mode, fresh extractdir     *)
(* SpecExtract main in batch mode up to the list of submissions            *)
(* SpecSingle  a run of main in single mode, extractdir given on the       *)
(*             command line and possibly used before                       *)
(* SpecCmd     one call of CommandExecutor.run on arbitrary commands       *)
(* SpecFind    one call of find_binary on an arbitrary directory listing   *)
(* SpecTwice   main run twice in single mode on the same archive, fixtures *)
(*             and extractdir, the commands answering the same way every   *)
(*             time they are given the same thing to do                    *)
(*                                                                         *)
(* Python values that may be None are modelled as sequences of length at   *)
(* most one: None is << >> and a value x is << x >>.  Text that the code   *)
(* takes apart (archive names, captured output) is a sequence of           *)
(* one-character strings.  A score is counted in tenths of a mark, so that *)
(* 0.5 is 5.  cmdlog and usedDirs are history variables: the commands      *)
(* handed to the shell and the working directories handed to evaluate.     *)
(* world and earlier are history variables too: what the commands answered *)
(* so far, and the results of the run of main before this one.             *)
(***************************************************************************)
EXTENDS Integers, Sequences, FiniteSets, TLC

VARIABLES
    mpc,          \* position of main: "start", "loop", "report", "exit"
    mode,         \* args["mode"]: "b" or "s"
    src,          \* args["src"]: what the source path holds
    testcases,    \* the loaded fixtures (load_testcases)
    submissions,  \* main's list of submissions
    results,      \* main's list of results
    idx,          \* number of submissions main has taken from the list
    epc,          \* position inside Evaluator.evaluate
    subm,         \* the submission being evaluated
    result,       \* evaluate's result dict
    subm_path,    \* evaluate's working directory
    bin_path,     \* the binary find_binary returned
    tsumm,        \* TestRunner.run's local list of outcomes
    tix,          \* number of fixtures TestRunner.run has gone through
    dirs,         \* the file system under extractdir: path -> set of entries
    cmdlog,       \* commands issued for the submission being evaluated
    usedDirs,     \* working directory of every evaluate call so far
    cwd,          \* the current working directory of the process
    world,        \* None, or what each command answered when it was run
    earlier,      \* None, or the results of the run of main before this one
    rcmds,        \* CommandExecutor.run called on its own: the commands
    rres,         \* CommandExecutor.run called on its own: what it returned
    rmatch,       \* TestRunner.run's verdict on what that call returned
    ffiles,       \* find_binary called on its own: what os.listdir returns
    fbin          \* find_binary called on its own: what it returned

vars == << mpc, mode, src, testcases, submissions, results, idx, epc, subm,
           result, subm_path, bin_path, tsumm, tix, dirs, cmdlog, usedDirs,
           cwd, world, earlier, rcmds, rres, rmatch, ffiles, fbin >>

pipelineVars == << mpc, mode, src, testcases, submissions, results, idx, epc,
                   subm, result, subm_path, bin_path, tsumm, tix, dirs,
                   cmdlog, usedDirs, cwd, world, earlier >>

\* the variables of the calls made on their own
callVars == << rcmds, rres, rmatch, ffiles, fbin >>

-----------------------------------------------------------------------------
(* Bounds *)

MaxExit == 2        \* exit codes are 0..MaxExit
MaxOut == 1         \* captured output has at most MaxOut characters
MaxCmds == 3        \* commands in one stand-alone CommandExecutor.run call
MaxTests == 2       \* fixtures in the fixture directory
MaxSubdirs == 2     \* student subdirectories in the Moodle zip
MaxFiles == 3       \* entries of the directory find_binary is called on alone

-----------------------------------------------------------------------------
(* Optional values and text *)

None == << >>
Some(x) == << x >>
Val(o) == o[1]

RECURSIVE SeqsUpTo(_, _)
\* all sequences over S of length at most n
SeqsUpTo(S, n) ==
    IF n = 0 THEN { << >> }
    ELSE LET shorter == SeqsUpTo(S, n - 1)
         IN  shorter \cup { Append(s, x) : s \in { t \in shorter : Len(t) = n - 1 }, x \in S }

ExitCodes == 0..MaxExit
OutChars == { " ", "d" }
Outputs == SeqsUpTo(OutChars, MaxOut)

Whitespace == { " ", "\t", "\n", "\r" }
IsSpace(c) == c \in Whitespace

RECURSIVE LStrip(_)
LStrip(s) == IF s # << >> /\ IsSpace(Head(s)) THEN LStrip(Tail(s)) ELSE s

RECURSIVE RStrip(_)
RStrip(s) ==
    IF s # << >> /\ IsSpace(s[Len(s)]) THEN RStrip(SubSeq(s, 1, Len(s) - 1)) ELSE s

\* str.strip()
Strip(s) == RStrip(LStrip(s))

-----------------------------------------------------------------------------
(* CommandExecutor *)

\* What the operating system answers when a command is run: the exit code of
\* the shell and the combined stdout and stderr it wrote.
Outcomes == [ code : ExitCodes, text : Outputs ]

\* _run_bash reporting every failure as exit code 1
RunBash_CodeLost(o) ==
    IF o.code = 0
    THEN [ ret |-> Some(0), out |-> Some(o.text), err |-> None ]
    ELSE [ ret |-> Some(1), out |-> None, err |-> Some(o.text) ]

\* _run_bash: (ret, out, errstr)
RunBash(o) ==
    IF o.code = 0
    THEN [ ret |-> Some(0), out |-> Some(o.text), err |-> None ]
    ELSE [ ret |-> Some(o.code), out |-> None, err |-> Some(o.text) ]

RECURSIVE RunLoop_NoStop(_, _, _)
\* the loop of run without the early return on a failing command
RunLoop_NoStop(os, k, acc) ==
    IF k > Len(os) THEN acc
    ELSE LET r == RunBash(os[k])
         IN  RunLoop_NoStop(os, k + 1,
                 [ ret |-> r.ret, out |-> r.out, err |-> r.err, nrun |-> k ])

RECURSIVE RunLoop(_, _, _)
\* the for loop of run, from command k on; nrun counts the commands executed
RunLoop(os, k, acc) ==
    IF k > Len(os) THEN acc
    ELSE LET r == RunBash(os[k])
             now == [ ret |-> r.ret, out |-> r.out, err |-> r.err, nrun |-> k ]
         IN  IF r.ret # Some(0) THEN now ELSE RunLoop(os, k + 1, now)

\* run handing back the captured text of a failing command as its output
Run_ErrorAsOutput(os) ==
    LET r == RunLoop(os, 1, [ ret |-> None, out |-> None, err |-> None, nrun |-> 0 ])
    IN  [ ret |-> r.ret, out |-> IF r.err # None THEN r.err ELSE r.out,
          err |-> None, nrun |-> r.nrun ]

\* CommandExecutor.run(*cmds): os[k] is what the k-th command does if executed
Run(os) == RunLoop(os, 1, [ ret |-> None, out |-> None, err |-> None, nrun |-> 0 ])

\* the command names listed as disabled during the execution of a submission
disabled_cmds == { "g++" }

\* the keyword options of a call of run that passes none
NoOptions == [ k \in { } |-> FALSE ]

\* run: options.get('disable_cmds', False)
DisableCmds(options) ==
    IF "disable_cmds" \in DOMAIN options THEN options["disable_cmds"] ELSE FALSE

\* _run_bash: the names its shell prefix turns into no-ops
Stubbed(disable) == IF disable THEN disabled_cmds ELSE { }

-----------------------------------------------------------------------------
(* The world the commands act on *)

\* world is None when nothing is assumed about the commands, which may then
\* answer differently each time.  Otherwise it holds the answers given so
\* far by commands that answer the same way whenever they are given the same
\* thing to do: a command is told apart by its name, the binary it runs, the
\* fixture it reads and, for a directory listing, the entries listed.  Of an
\* answer, world keeps what the pipeline goes by: Told(o) of what a command
\* did, the files make left, the entry find_binary took from a listing.
Key(cmd, bin, test, entries) ==
    [ cmd |-> cmd, bin |-> bin, test |-> test, entries |-> entries ]

Stage(cmd) == Key(cmd, None, 0, { })

\* what the pipeline goes by in what a command did: whether it exited 0 and,
\* if it did, whether it wrote anything but whitespace
Told(o) == [ ok |-> o.code = 0, blank |-> o.code = 0 /\ Strip(o.text) = << >> ]

\* a may be the answer to key
Answers(w, key, a) ==
    IF w = None THEN TRUE
    ELSE IF key \in DOMAIN Val(w) THEN Val(w)[key] = a ELSE TRUE

\* the world after key was answered with a
Learn(w, key, a) ==
    IF w = None THEN w
    ELSE Some([ k \in DOMAIN Val(w) \cup { key } |->
                  IF k = key THEN a ELSE Val(w)[k] ])

\* the first n of the commands keys may answer os
AnswersRun(w, keys, os, n) == \A k \in 1..n : Answers(w, keys[k], os[k])

RECURSIVE LearnRun(_, _, _, _)
\* the world after the first n of the commands keys answered os
LearnRun(w, keys, os, n) ==
    IF n = 0 THEN w
    ELSE Learn(LearnRun(w, keys, os, n - 1), keys[n], os[n])

-----------------------------------------------------------------------------
(* Names and the roll-number pattern *)

NameUpper == << "C", "S", "1", "7", "B", "0", "0", "1" >>        \* CS17B001
NameLower == << "x", "c", "s", "1", "7", "b", "0", "0", "1" >>   \* xcs17b001
NameOther == << "C", "S", "1", "7", "B", "0", "0", "2" >>        \* CS17B002
NameShort == << "C", "S", "1", "7", "B", "0", "1" >>             \* CS17B01
Names == { NameUpper, NameLower, NameOther, NameShort }

IsDigit(c) == c \in { "0", "1", "2", "3", "4", "5", "6", "7", "8", "9" }

\* str.lower() on one character
LowerChar(c) ==
    CASE c = "B" -> "b"
      [] c = "C" -> "c"
      [] c = "S" -> "s"
      [] OTHER -> c

\* str.lower()
Lower(s) == [ i \in 1..Len(s) |-> LowerChar(s[i]) ]

\* ROLLNO_REGEX = CS\d{2}B\d{3}, IGNORECASE, matching at position i of s
MatchesAt(s, i) ==
    /\ i + 7 <= Len(s)
    /\ LowerChar(s[i]) = "c"
    /\ LowerChar(s[i + 1]) = "s"
    /\ IsDigit(s[i + 2])
    /\ IsDigit(s[i + 3])
    /\ LowerChar(s[i + 4]) = "b"
    /\ IsDigit(s[i + 5])
    /\ IsDigit(s[i + 6])
    /\ IsDigit(s[i + 7])

\* ROLLNO_REGEX.search(s): the leftmost match, or None
Search(s) ==
    LET hits == { i \in 1..Len(s) : MatchesAt(s, i) }
    IN  IF hits = { } THEN None
        ELSE LET i == CHOOSE j \in hits : \A k \in hits : j <= k
             IN  Some(SubSeq(s, i, i + 7))

\* the listing of one student subdirectory of the zip, in os.listdir order
SubdirListings ==
    { << >>, << NameUpper >>, << NameLower >>, << NameOther >>, << NameShort >>,
      << NameShort, NameUpper >> }

\* the listing of the extracted zip: one entry per student subdirectory
Zips == SeqsUpTo(SubdirListings, MaxSubdirs)

\* what the source path may hold: a Moodle zip (batch mode) or one tar
Sources ==
    [ kind : { "zip" }, listing : Zips ]
        \cup [ kind : { "tar" }, name : Names, exists : BOOLEAN ]

RECURSIVE SubmissionsFrom_KeepCase(_, _)
\* the for loop of extract_submissions with the match taken as it is written
SubmissionsFrom_KeepCase(zip, k) ==
    IF k > Len(zip) THEN << >>
    ELSE LET tars == zip[k]
             rest == SubmissionsFrom_KeepCase(zip, k + 1)
         IN  IF Len(tars) = 0 THEN rest
             ELSE LET tarname == tars[1]
                      match == Search(tarname)
                  IN  IF match = None THEN rest
                      ELSE << [ rollno |-> Val(match),
                                tarpath |-> [ subdir |-> k, tarname |-> tarname ] ] >>
                           \o rest

RECURSIVE SubmissionsFrom(_, _)
\* the for loop of extract_submissions, from subdirectory k on
SubmissionsFrom(zip, k) ==
    IF k > Len(zip) THEN << >>
    ELSE LET tars == zip[k]
             rest == SubmissionsFrom(zip, k + 1)
         IN  IF Len(tars) = 0 THEN rest
             ELSE LET tarname == tars[1]
                      match == Search(tarname)
                  IN  IF match = None THEN rest
                      ELSE << [ rollno |-> Lower(Val(match)),
                                tarpath |-> [ subdir |-> k, tarname |-> tarname ] ] >>
                           \o rest

\* extract_submissions, once the zip is unpacked
ExtractSubmissions(zip) == SubmissionsFrom(zip, 1)

-----------------------------------------------------------------------------
(* The file system under extractdir *)

ExtractDir == << "w" >>

\* os.path.join(self.extractdir, subm["rollno"])
SubmPath(rollno) == ExtractDir \o << "/" >> \o rollno

File(name, exec) == [ name |-> name, isfile |-> TRUE, exec |-> exec ]
Directory(name) == [ name |-> name, isfile |-> FALSE, exec |-> TRUE ]

\* what tar unpacks from the archive of that name (one leading component stripped)
ArchiveFiles(tarname) ==
    CASE tarname = NameUpper -> { File("Makefile", FALSE) }
      [] tarname = NameLower ->
            { File("Makefile", FALSE), File("run.sh", TRUE), Directory("obj") }
      [] tarname = NameOther -> { File("Makefile", FALSE), File("a.out", FALSE) }
      [] OTHER -> { }

\* what the submission's make may leave in the directory
MakeProducts ==
    { { }, { File("a.out", TRUE) }, { File("main", TRUE) } }

\* the names the submission's make clean removes
CleanTargets == { "a.out", "main" }

\* entries written into a directory replace the entries of the same name
Overwrite(entries, new) ==
    { e \in entries : \A n \in new : n.name # e.name } \cup new

Remove(entries, names) == { e \in entries : e.name \notin names }

RECURSIVE Listings(_)
\* every order in which os.listdir may return the entries
Listings(entries) ==
    IF entries = { } THEN { << >> }
    ELSE UNION { { << e >> \o l : l \in Listings(entries \ { e }) } : e \in entries }

\* find_binary looking for a regular file only, executable or not
FindBinary_AnyFile(files) ==
    IF \E i \in 1..Len(files) : files[i].name = "a.out"
    THEN Some("a.out")
    ELSE LET ok == { i \in 1..Len(files) : files[i].isfile }
         IN  IF ok = { } THEN None
             ELSE Some(files[CHOOSE i \in ok : \A j \in ok : i <= j].name)

\* find_binary on the listing files: the entry returned, or None for BinaryNotFound
FindBinary(files) ==
    IF \E i \in 1..Len(files) : files[i].name = "a.out"
    THEN Some("a.out")
    ELSE LET ok == { i \in 1..Len(files) : files[i].isfile /\ files[i].exec }
         IN  IF ok = { } THEN None
             ELSE Some(files[CHOOSE i \in ok : \A j \in ok : i <= j].name)

-----------------------------------------------------------------------------
(* Fixtures, outcomes and the result *)

\* load_testcases: fixture directories sorted by id, each with the keys its
\* file names give; a fixture directory may lack its input or its output file
FixtureId(i) == 10 + i
KeySets == { { "input", "output" }, { "output" }, { "input" } }
TestcaseLists ==
    UNION { { [ i \in 1..n |-> [ id |-> FixtureId(i), keys |-> ks[i] ] ] :
                ks \in [ 1..n -> KeySets ] } : n \in 0..MaxTests }

\* the commands whose captured text the pipeline only prints
StageOutcomes == [ code : ExitCodes, text : { << "d" >> } ]

HalfMark == 5

RECURSIVE ScoreSubm(_)
\* score_subm, in tenths
ScoreSubm(ts) ==
    IF ts = << >> THEN 0
    ELSE ScoreSubm(SubSeq(ts, 1, Len(ts) - 1))
            + (IF ts[Len(ts)][2] THEN HalfMark ELSE 0)

\* the result dict evaluate starts from
NewResult(rollno) ==
    [ subm_id |-> rollno, error_obj |-> None, nb_tests |-> None, passed |-> None,
      failed |-> None, tsumm |-> << >>, score |-> None ]

\* the except clause of evaluate with the outcomes gathered so far kept
Caught_KeepOutcomes(res, e, ts) == [ res EXCEPT !.error_obj = Some(e), !.tsumm = ts ]

\* the except clause of evaluate: e was raised while ts was TestRunner's local list
Caught(res, e, ts) == [ res EXCEPT !.error_obj = Some(e) ]

\* evaluate counting every outcome as passed
Filled_AllPassed(res, ts) ==
    [ res EXCEPT !.nb_tests = Some(Len(ts)), !.failed = Some(0),
                 !.passed = Some(Len(ts)), !.tsumm = ts,
                 !.score = Some(ScoreSubm(ts)) ]

\* evaluate after TestRunner.run returned ts
Filled(res, ts) ==
    LET nb == Len(ts)
        failed == Cardinality({ i \in 1..Len(ts) : ~ts[i][2] })
    IN  [ res EXCEPT !.nb_tests = Some(nb), !.failed = Some(failed),
                     !.passed = Some(nb - failed), !.tsumm = ts,
                     !.score = Some(ScoreSubm(ts)) ]

\* the test of TestRunner.run with the captured output compared unstripped
Matches_NoStrip(r) ==
    ~(r.ret # Some(0) \/ r.out = None \/ Len(Val(r.out)) > 0)

\* the test of TestRunner.run on what cmdex.run returned
Matches(r) ==
    ~(r.ret # Some(0) \/ r.out = None \/ Len(Strip(Val(r.out))) > 0)

\* test["input"] and test["output"] are there (else KeyError)
HasFiles(test) == { "input", "output" } \subseteq test.keys

\* the append of TestRunner.run with the outcome put in front
AddOutcome_InFront(ts, id, m) == << << id, m >> >> \o ts

\* tsumm.append((test["id"], matches))
AddOutcome(ts, id, m) == Append(ts, << id, m >>)

MkdirFailed_Never(r) == FALSE

\* extract_tar: if ret != 0 after mkdir
MkdirFailed(r) == r.ret # Some(0)

TarFailed_Never(r) == FALSE

\* extract_tar: if ret != 0 after tar
TarFailed(r) == r.ret # Some(0)

\* build_subm raising when either of its two commands failed
MakeFailed_EitherStep(rc, rm) == rc.ret # Some(0) \/ rm.ret # Some(0)

\* build_subm: if retcode != 0, retcode being what the last call, make, returned
MakeFailed(rc, rm) == rm.ret # Some(0)

\* build_subm going back to the saved directory only when make succeeded
Restored_UnlessRaised(saved, path, rm) == IF rm.ret # Some(0) THEN path ELSE saved

\* build_subm: os.chdir(cwd), done before retcode is looked at; saved is what
\* os.getcwd() returned on entry, path the directory make ran in
Restored(saved, path, rm) == saved

\* the log entries of the commands cmds that r says were run, issued for
\* fixture test by a call of run with the keyword options given
Logged(cmds, os, r, test, options) ==
    [ k \in 1..r.nrun |->
        [ cmd |-> cmds[k], test |-> test, ok |-> (os[k].code = 0),
          stubs |-> Stubbed(DisableCmds(options)) ] ]

\* the exception classes make_comment has a description for
TypedErrors ==
    { "IVTarName", "ExtractError", "IVDirStruct", "MakeError", "BinaryNotFound",
      "TestRunError" }

\* make_comment on an error object of one of those classes
StageComment(e) ==
    CASE e = "IVTarName" -> "Invalid Tar Name"
      [] e = "ExtractError" -> "Error extracting the submission"
      [] e = "IVDirStruct" -> "Invalid directory structure"
      [] e = "MakeError" -> "Error encountered while running make"
      [] e = "BinaryNotFound" -> "Couldn't find executable"
      [] e = "TestRunError" -> "Error running test cases"

\* result['nb_tests'] > result['passed'] as the interpreter named in the first
\* line of eval.py orders the values: None is not greater than None
Greater(a, b) == a # None /\ (b = None \/ Val(a) > Val(b))

\* make_comment
MakeComment(res) ==
    IF res.error_obj # None /\ Val(res.error_obj) \in TypedErrors
    THEN StageComment(Val(res.error_obj))
    ELSE IF Greater(res.nb_tests, res.passed) THEN "Failed Testcases" ELSE ""

-----------------------------------------------------------------------------
(* The pipeline: main and Evaluator.evaluate *)

\* the directory the program is started in
StartDir == << "h" >>

\* main before it looks at the mode, the fixtures loaded
Start ==
    /\ mpc = "start"
    /\ testcases \in TestcaseLists
    /\ submissions = << >>
    /\ results = << >>
    /\ idx = 0
    /\ epc = "idle"
    /\ subm = None
    /\ result = None
    /\ subm_path = None
    /\ bin_path = None
    /\ tsumm = << >>
    /\ tix = 0
    /\ cmdlog = << >>
    /\ usedDirs = << >>
    /\ cwd = StartDir
    /\ earlier = None
    /\ rcmds = << >>
    /\ rres = None
    /\ rmatch = None
    /\ ffiles = << >>
    /\ fbin = None

\* extractdir when --extractdir is not given: a fresh temporary directory
FreshDir == [ p \in { } |-> { } ]

\* what an earlier run may have left in a working directory of a given extractdir
Leftovers ==
    { File("Makefile", FALSE), File("assembly.s", FALSE), File("generated.out", TRUE) }

\* extractdir when --extractdir names a directory: fresh, or used by an earlier run
GivenDirs ==
    { FreshDir } \cup
    { [ p \in { SubmPath(Lower(Val(Search(n)))) } |-> Leftovers ] :
        n \in { m \in Names : Search(m) # None } }

\* a run in either mode with a fresh extractdir
Init ==
    /\ Start
    /\ \/ mode = "b" /\ src \in { x \in Sources : x.kind = "zip" }
       \/ mode = "s" /\ src \in { x \in Sources : x.kind = "tar" }
    /\ dirs = FreshDir
    /\ world = None

evalVars == << epc, subm, result, subm_path, bin_path, tsumm, tix, dirs,
               cmdlog, usedDirs, cwd >>

\* main in batch mode: extract_zip, then extract_submissions
MainBatch ==
    /\ mpc = "start"
    /\ mode = "b"
    /\ \E o \in StageOutcomes :
         LET r == Run(<< o >>)
         IN  /\ Answers(world, Stage("unzip"), Told(o))
             /\ world' = Learn(world, Stage("unzip"), Told(o))
             /\ IF r.ret # Some(0)
                THEN /\ mpc' = "exit"
                     /\ submissions' = submissions
                ELSE /\ mpc' = "loop"
                     /\ submissions' = ExtractSubmissions(src.listing)
    /\ UNCHANGED << mode, src, testcases, results, idx, earlier, callVars >>
    /\ UNCHANGED evalVars

\* main in single mode
MainSingle ==
    /\ mpc = "start"
    /\ mode = "s"
    /\ LET match == Search(src.name)
       IN  IF match = None \/ ~src.exists
           THEN /\ mpc' = "exit"
                /\ submissions' = submissions
           ELSE /\ mpc' = "loop"
                /\ submissions' =
                     << [ rollno |-> Lower(Val(match)),
                          tarpath |-> [ subdir |-> 0, tarname |-> src.name ] ] >>
    /\ UNCHANGED << mode, src, testcases, results, idx, world, earlier, callVars >>
    /\ UNCHANGED evalVars

\* evaluate returns res to the loop of main, which appends it
Return(res) ==
    /\ result' = res
    /\ results' = Append(results, res)
    /\ epc' = "idle"

\* the loop of main takes the next submission and evaluate starts on it
EvaluateBegin ==
    /\ mpc = "loop"
    /\ epc = "idle"
    /\ idx < Len(submissions)
    /\ idx' = idx + 1
    /\ subm' = Some(submissions[idx + 1])
    /\ result' = NewResult(submissions[idx + 1].rollno)
    /\ subm_path' = Some(SubmPath(submissions[idx + 1].rollno))
    /\ usedDirs' = Append(usedDirs, SubmPath(submissions[idx + 1].rollno))
    /\ epc' = "extract"
    /\ bin_path' = None
    /\ tsumm' = << >>
    /\ tix' = 0
    /\ cmdlog' = << >>
    /\ UNCHANGED << mpc, mode, src, testcases, submissions, results, dirs,
                    cwd, world, earlier, callVars >>

\* extract_tar
ExtractTar ==
    /\ epc = "extract"
    /\ \E o1, o2 \in StageOutcomes :
         LET path == Val(subm_path)
             r1 == Run(<< o1 >>)
             r2 == Run(<< o2 >>)
             made == IF path \in DOMAIN dirs THEN dirs ELSE (path :> { }) @@ dirs
             files == ArchiveFiles(Val(subm).tarpath.tarname)
             keys == << Stage("mkdir"), Stage("tar") >>
             nrun == IF MkdirFailed(r1) THEN 1 ELSE 2
             told == << Told(o1), Told(o2) >>
         IN  /\ AnswersRun(world, keys, told, nrun)
             /\ world' = LearnRun(world, keys, told, nrun)
             /\ IF MkdirFailed(r1)
                THEN /\ cmdlog' = cmdlog
                                    \o Logged(<< "mkdir" >>, << o1 >>, r1, 0, NoOptions)
                     /\ dirs' = dirs
                     /\ Return(Caught(result, "ExtractError", tsumm))
                ELSE /\ cmdlog' = cmdlog
                                    \o Logged(<< "mkdir" >>, << o1 >>, r1, 0, NoOptions)
                                    \o Logged(<< "tar" >>, << o2 >>, r2, 0, NoOptions)
                     /\ IF TarFailed(r2)
                        THEN /\ dirs' = made
                             /\ Return(Caught(result, "ExtractError", tsumm))
                        ELSE /\ dirs' = [ made EXCEPT ![path] = Overwrite(@, files) ]
                             /\ epc' = "build"
                             /\ UNCHANGED << result, results >>
    /\ UNCHANGED << mpc, mode, src, testcases, submissions, idx, subm, subm_path,
                    bin_path, tsumm, tix, usedDirs, cwd, earlier, callVars >>

\* build_subm
BuildSubm ==
    /\ epc = "build"
    /\ \E oc, om \in StageOutcomes, products \in MakeProducts :
         LET path == Val(subm_path)
             saved == cwd
             rc == Run(<< oc >>)
             rm == Run(<< om >>)
             cleaned == IF rc.ret = Some(0)
                        THEN Remove(dirs[path], CleanTargets) ELSE dirs[path]
             keys == << Stage("make clean"), Stage("make"), Stage("make products") >>
             answers == << Told(oc), Told(om), products >>
         IN  /\ AnswersRun(world, keys, answers, 3)
             /\ world' = LearnRun(world, keys, answers, 3)
             /\ cmdlog' = cmdlog
                            \o Logged(<< "make clean" >>, << oc >>, rc, 0, NoOptions)
                            \o Logged(<< "make" >>, << om >>, rm, 0, NoOptions)
             /\ dirs' = [ dirs EXCEPT ![path] = Overwrite(cleaned, products) ]
             /\ cwd' = Restored(saved, path, rm)
             /\ IF MakeFailed(rc, rm)
                THEN Return(Caught(result, "MakeError", tsumm))
                ELSE /\ epc' = "find"
                     /\ UNCHANGED << result, results >>
    /\ UNCHANGED << mpc, mode, src, testcases, submissions, idx, subm, subm_path,
                    bin_path, tsumm, tix, usedDirs, earlier, callVars >>

\* find_binary
LocateBinary ==
    /\ epc = "find"
    /\ \E files \in Listings(dirs[Val(subm_path)]) :
         LET found == FindBinary(files)
             key == Key("listdir", None, 0, dirs[Val(subm_path)])
         IN  /\ Answers(world, key, found)
             /\ world' = Learn(world, key, found)
             /\ cmdlog' = Append(cmdlog, [ cmd |-> "listdir", test |-> 0, ok |-> TRUE,
                                           stubs |-> { } ])
             /\ IF found = None
                THEN /\ Return(Caught(result, "BinaryNotFound", tsumm))
                     /\ bin_path' = bin_path
                ELSE /\ bin_path' = found
                     /\ epc' = "tests"
                     /\ UNCHANGED << result, results >>
    /\ UNCHANGED << mpc, mode, src, testcases, submissions, idx, subm, subm_path,
                    tsumm, tix, dirs, usedDirs, cwd, earlier, callVars >>

\* the files the three commands of one fixture leave in the working directory
Artifacts(entries, r) ==
    LET s1 == IF r.nrun >= 1 THEN Overwrite(entries, { File("assembly.s", FALSE) })
              ELSE entries
    IN  IF r.nrun >= 3 \/ (r.nrun = 2 /\ r.ret = Some(0))
        THEN Overwrite(s1, { File("generated.out", TRUE) })
        ELSE s1

\* one iteration of the loop of TestRunner.run
RunTest ==
    /\ epc = "tests"
    /\ tix < Len(testcases)
    /\ LET test == testcases[tix + 1]
           path == Val(subm_path)
       IN  IF ~HasFiles(test)
           THEN /\ Return(Caught(result, "KeyError", tsumm))
                /\ UNCHANGED << tsumm, tix, dirs, cmdlog, world >>
           ELSE \E o1, o2 \in StageOutcomes, o3 \in Outcomes :
                  LET r == Run(<< o1, o2, o3 >>)
                      keys == << Key("cmd1", bin_path, test.id, { }),
                                 Key("cmd2", bin_path, test.id, { }),
                                 Key("cmd3", bin_path, test.id, { }) >>
                      told == << Told(o1), Told(o2), Told(o3) >>
                  IN  /\ AnswersRun(world, keys, told, r.nrun)
                      /\ world' = LearnRun(world, keys, told, r.nrun)
                      /\ cmdlog' = cmdlog \o Logged(<< "cmd1", "cmd2", "cmd3" >>,
                                                      << o1, o2, o3 >>, r, test.id,
                                                      NoOptions)
                      /\ dirs' = [ dirs EXCEPT ![path] = Artifacts(@, r) ]
                      /\ tsumm' = AddOutcome(tsumm, test.id, Matches(r))
                      /\ tix' = tix + 1
                      /\ UNCHANGED << epc, result, results >>
    /\ UNCHANGED << mpc, mode, src, testcases, submissions, idx, subm, subm_path,
                    bin_path, usedDirs, cwd, earlier, callVars >>

\* TestRunner.run returns and evaluate fills in the result
TestsDone ==
    /\ epc = "tests"
    /\ tix = Len(testcases)
    /\ Return(Filled(result, tsumm))
    /\ UNCHANGED << mpc, mode, src, testcases, submissions, idx, subm, subm_path,
                    bin_path, tsumm, tix, dirs, cmdlog, usedDirs, cwd, world,
                    earlier, callVars >>

\* the loop of main given up after a submission that failed
MainReport_StopOnFailure ==
    /\ mpc = "loop"
    /\ epc = "idle"
    /\ \/ idx = Len(submissions)
       \/ results # << >> /\ results[Len(results)].error_obj # None
    /\ mpc' = "report"
    /\ UNCHANGED << mode, src, testcases, submissions, results, idx, world,
                    earlier, callVars >>
    /\ UNCHANGED evalVars

\* the loop of main is over
MainReport ==
    /\ mpc = "loop"
    /\ epc = "idle"
    /\ idx = Len(submissions)
    /\ mpc' = "report"
    /\ UNCHANGED << mode, src, testcases, submissions, results, idx, world,
                    earlier, callVars >>
    /\ UNCHANGED evalVars

Next ==
    \/ MainBatch
    \/ MainSingle
    \/ EvaluateBegin
    \/ ExtractTar
    \/ BuildSubm
    \/ LocateBinary
    \/ RunTest
    \/ TestsDone
    \/ MainReport

Spec == Init /\ [][Next]_vars

-----------------------------------------------------------------------------
(* extract_submissions: main in batch mode up to the list of submissions *)

InitExtract ==
    /\ Start
    /\ testcases = << >>
    /\ mode = "b"
    /\ src \in { x \in Sources : x.kind = "zip" }
    /\ dirs = FreshDir
    /\ world = None

NextExtract == MainBatch

SpecExtract == InitExtract /\ [][NextExtract]_vars

-----------------------------------------------------------------------------
(* One submission: main in single mode, with --extractdir given *)

InitSingle ==
    /\ Start
    /\ mode = "s"
    /\ src \in { x \in Sources : x.kind = "tar" }
    /\ dirs \in GivenDirs
    /\ world = None

NextSingle ==
    \/ MainSingle
    \/ EvaluateBegin
    \/ ExtractTar
    \/ BuildSubm
    \/ LocateBinary
    \/ RunTest
    \/ TestsDone
    \/ MainReport

SpecSingle == InitSingle /\ [][NextSingle]_vars

-----------------------------------------------------------------------------
(* The same run made twice: main in single mode on an archive that is there *)
(* and well named, --extractdir naming a directory that is empty before the *)
(* first run, every command answering the same way each time it is given    *)
(* the same thing to do                                                     *)

InitTwice ==
    /\ Start
    /\ mode = "s"
    /\ src \in { x \in Sources : x.kind = "tar" /\ x.exists /\ Search(x.name) # None }
    /\ dirs = FreshDir
    /\ world = Some([ k \in { } |-> 0 ])

\* the program is started again with the arguments of the run that just ended
Rerun ==
    /\ mpc = "report"
    /\ earlier = None
    /\ earlier' = Some(results)
    /\ mpc' = "start"
    /\ submissions' = << >>
    /\ results' = << >>
    /\ idx' = 0
    /\ subm' = None
    /\ result' = None
    /\ subm_path' = None
    /\ bin_path' = None
    /\ tsumm' = << >>
    /\ tix' = 0
    /\ cmdlog' = << >>
    /\ usedDirs' = << >>
    /\ cwd' = StartDir
    /\ UNCHANGED << mode, src, testcases, epc, dirs, world, callVars >>

NextTwice ==
    \/ MainSingle
    \/ EvaluateBegin
    \/ ExtractTar
    \/ BuildSubm
    \/ LocateBinary
    \/ RunTest
    \/ TestsDone
    \/ MainReport
    \/ Rerun

SpecTwice == InitTwice /\ [][NextTwice]_vars

-----------------------------------------------------------------------------
(* CommandExecutor.run on its own, and TestRunner's verdict on its result *)

\* the pipeline at rest while a function is called on its own
Idle ==
    /\ mpc = "exit"
    /\ mode = "s"
    /\ src = [ kind |-> "tar", name |-> NameShort, exists |-> FALSE ]
    /\ testcases = << >>
    /\ submissions = << >>
    /\ results = << >>
    /\ idx = 0
    /\ epc = "idle"
    /\ subm = None
    /\ result = None
    /\ subm_path = None
    /\ bin_path = None
    /\ tsumm = << >>
    /\ tix = 0
    /\ dirs = FreshDir
    /\ cmdlog = << >>
    /\ usedDirs = << >>
    /\ cwd = StartDir
    /\ world = None
    /\ earlier = None

InitCmd ==
    /\ rcmds \in SeqsUpTo(Outcomes, MaxCmds)
    /\ rres = None
    /\ rmatch = None
    /\ ffiles = << >>
    /\ fbin = None
    /\ Idle

\* cmdex.run(*rcmds), followed by the test TestRunner.run makes on its result
RunCall ==
    /\ rres = None
    /\ rres' = Some(Run(rcmds))
    /\ rmatch' = Some(Matches(Run(rcmds)))
    /\ UNCHANGED << rcmds, ffiles, fbin >>
    /\ UNCHANGED pipelineVars

NextCmd == RunCall

SpecCmd == InitCmd /\ [][NextCmd]_vars

-----------------------------------------------------------------------------
(* find_binary on its own *)

\* what a submission directory may hold
EntryPool ==
    { File("a.out", TRUE), File("a.out", FALSE), Directory("a.out"),
      File("main", TRUE), File("run.sh", TRUE), File("Makefile", FALSE),
      Directory("obj") }

\* what os.listdir may return: no name comes twice
FileListings ==
    { l \in SeqsUpTo(EntryPool, MaxFiles) :
        \A i, j \in 1..Len(l) : i # j => l[i].name # l[j].name }

InitFind ==
    /\ ffiles \in FileListings
    /\ fbin = None
    /\ rcmds = << >>
    /\ rres = None
    /\ rmatch = None
    /\ Idle

\* find_binary(dir_path) with os.listdir(dir_path) returning ffiles
FindCall ==
    /\ fbin = None
    /\ fbin' = Some(FindBinary(ffiles))
    /\ UNCHANGED << ffiles, rcmds, rres, rmatch >>
    /\ UNCHANGED pipelineVars

NextFind == FindCall

SpecFind == InitFind /\ [][NextFind]_vars

-----------------------------------------------------------------------------
(* Properties *)

TestCmds == { "cmd1", "cmd2", "cmd3" }
RanOk(c) == \E k \in 1..Len(cmdlog) : cmdlog[k].cmd = c /\ cmdlog[k].ok
RanFailed(c) == \E k \in 1..Len(cmdlog) : cmdlog[k].cmd = c /\ ~cmdlog[k].ok
RanFor(id, c) == \E k \in 1..Len(cmdlog) : cmdlog[k].test = id /\ cmdlog[k].cmd = c
FailedFor(id, c) ==
    \E k \in 1..Len(cmdlog) : cmdlog[k].test = id /\ cmdlog[k].cmd = c /\ ~cmdlog[k].ok
Returned == idx > 0 /\ epc = "idle"
LastLogged == cmdlog[Len(cmdlog)]
Passes(ts) == Cardinality({ j \in 1..Len(ts) : ts[j][2] })

\* C1: the commands of one evaluate call are issued in the order mkdir, tar,
\* make clean, make, directory listing, fixture commands; each stage starts
\* only after the one before it succeeded (make follows make clean whatever
\* make clean returned), fixture commands are issued only with a binary
\* located, and a stage failure is the last thing the call does.
C1_StagesInOrder ==
    /\ \A k \in 1..Len(cmdlog) :
         LET e == cmdlog[k]
         IN  IF k = 1 THEN e.cmd = "mkdir"
             ELSE LET p == cmdlog[k - 1]
                  IN  CASE e.cmd = "mkdir" -> FALSE
                        [] e.cmd = "tar" -> p.cmd = "mkdir" /\ p.ok
                        [] e.cmd = "make clean" -> p.cmd = "tar" /\ p.ok
                        [] e.cmd = "make" -> p.cmd = "make clean"
                        [] e.cmd = "listdir" -> p.cmd = "make" /\ p.ok
                        [] e.cmd \in TestCmds ->
                             /\ p.cmd = "listdir" \/ p.cmd \in TestCmds
                             /\ bin_path # None
                        [] OTHER -> FALSE
    /\ Returned =>
         /\ result.error_obj = Some("ExtractError") =>
              LastLogged.cmd \in { "mkdir", "tar" } /\ ~LastLogged.ok
         /\ result.error_obj = Some("MakeError") =>
              LastLogged.cmd = "make" /\ ~LastLogged.ok
         /\ result.error_obj = Some("BinaryNotFound") => LastLogged.cmd = "listdir"

C1_Witness ==
    /\ Returned
    /\ result.error_obj = Some("MakeError")
    /\ Len(cmdlog) = 4
    /\ RanOk("tar")

\* C2: every result evaluate returned has score = 0.5 x (number of outcomes
\* that passed), a failed submission having score 0.
C2_ScoreIsHalfPerPass ==
    \A i \in 1..Len(results) :
        results[i].score = Some(HalfMark * Passes(results[i].tsumm))

\* C3: a result that records a stage failure carries no outcomes.
C3_FailureHasNoOutcomes ==
    \A i \in 1..Len(results) :
        results[i].error_obj # None => results[i].tsumm = << >>

C3_Witness ==
    /\ Returned
    /\ result.error_obj = Some("KeyError")
    /\ tsumm # << >>
    /\ results[Len(results)] = result

\* C4: run on n >= 1 commands executes them in order up to and including the
\* first one that exits non-zero and returns that exit code; with no failing
\* command it executes all n and returns 0.
C4_RunStopsAtFirstFailure ==
    (rres # None /\ Len(rcmds) >= 1) =>
        LET r == Val(rres)
            fails == { k \in 1..Len(rcmds) : rcmds[k].code # 0 }
        IN  IF fails = { }
            THEN r.nrun = Len(rcmds) /\ r.ret = Some(0)
            ELSE LET k == CHOOSE j \in fails : \A l \in fails : j <= l
                 IN  r.nrun = k /\ r.ret = Some(rcmds[k].code)

C4_Witness ==
    /\ rres # None
    /\ Len(rcmds) = 3
    /\ rcmds[1].code = 0
    /\ rcmds[2].code = 2
    /\ Val(rres).nrun = 2
    /\ Val(rres).ret = Some(2)

\* C5: evaluate is called for every submission in list order and results ends
\* with one result per submission in that order, whatever failed on the way.
C5_OneResultPerSubmission ==
    /\ Len(usedDirs) = idx
    /\ Len(results) = IF epc = "idle" THEN idx ELSE idx - 1
    /\ \A i \in 1..Len(results) : results[i].subm_id = submissions[i].rollno
    /\ \A i \in 1..Len(usedDirs) : usedDirs[i] = SubmPath(submissions[i].rollno)
    /\ mpc = "report" => Len(results) = Len(submissions)

C5_Witness ==
    /\ mpc = "report"
    /\ Len(results) = 2
    /\ results[1].error_obj # None
    /\ results[2].error_obj = None

\* an entry find_binary accepts: one named a.out, or an executable regular file
Qualifying(entries) ==
    \E e \in entries : e.name = "a.out" \/ (e.isfile /\ e.exec)

AllBlank(text) == \A i \in 1..Len(text) : text[i] \in Whitespace

\* C7 as stated: a fixture passes iff the three commands returned exit code 0
\* and the captured output of the last one is empty.
C7_PassIffZeroAndEmpty ==
    (rres # None /\ Len(rcmds) = 3) =>
        (Val(rmatch) <=> (Val(rres).ret = Some(0) /\ rcmds[3].text = << >>))

\* C7 amended: a fixture passes iff the three commands returned exit code 0
\* and the captured output of the last one holds nothing but whitespace.
C7_PassIffZeroAndBlank ==
    (rres # None /\ Len(rcmds) = 3) =>
        (Val(rmatch) <=> (Val(rres).ret = Some(0) /\ AllBlank(rcmds[3].text)))

C7_Witness ==
    /\ rres # None
    /\ Len(rcmds) = 3
    /\ \A k \in 1..3 : rcmds[k].code = 0
    /\ rcmds[3].text = << " " >>
    /\ Val(rmatch)

Malformed(test) == "input" \notin test.keys \/ "output" \notin test.keys

\* C8: a fixture whose first or second command exits non-zero gets the outcome
\* passed = false, its later commands are not run, no stage failure is
\* recorded for it, and the fixtures after it are still run.
C8_FixtureFailureIsAnOutcome ==
    /\ \A j \in 1..Len(tsumm) :
         LET id == testcases[j].id
         IN  /\ RanFor(id, "cmd1")
             /\ FailedFor(id, "cmd1") =>
                  ~RanFor(id, "cmd2") /\ ~RanFor(id, "cmd3") /\ ~tsumm[j][2]
             /\ FailedFor(id, "cmd2") => ~RanFor(id, "cmd3") /\ ~tsumm[j][2]
    /\ epc = "tests" => result.error_obj = None
    /\ (Returned /\ bin_path # None) =>
         IF result.error_obj = None
         THEN /\ Len(result.tsumm) = Len(testcases)
              /\ \A j \in 1..Len(testcases) : RanFor(testcases[j].id, "cmd1")
         ELSE /\ result.error_obj = Some("KeyError")
              /\ tix < Len(testcases)
              /\ Malformed(testcases[tix + 1])

C8_Witness ==
    /\ Returned
    /\ result.error_obj = None
    /\ Len(testcases) = 2
    /\ FailedFor(testcases[1].id, "cmd1")
    /\ RanFor(testcases[2].id, "cmd3")
    /\ result.tsumm = << << testcases[1].id, FALSE >>, << testcases[2].id, TRUE >> >>

\* C9: TestRunner.run goes through the fixtures in the order of the loaded
\* list and returns one outcome per fixture in that order, the i-th outcome
\* carrying the id of the i-th fixture.
C9_OutcomesInFixtureOrder ==
    /\ Len(tsumm) = tix
    /\ \A j \in 1..Len(tsumm) : tsumm[j][1] = testcases[j].id
    /\ \A k, l \in 1..Len(cmdlog) :
         (k < l /\ cmdlog[k].cmd \in TestCmds /\ cmdlog[l].cmd \in TestCmds) =>
            \E a, b \in 1..Len(testcases) :
               /\ a <= b
               /\ testcases[a].id = cmdlog[k].test
               /\ testcases[b].id = cmdlog[l].test
    /\ \A i \in 1..Len(results) :
         results[i].error_obj = None =>
            /\ Len(results[i].tsumm) = Len(testcases)
            /\ \A j \in 1..Len(testcases) : results[i].tsumm[j][1] = testcases[j].id

C9_Witness ==
    /\ Returned
    /\ result.error_obj = None
    /\ Len(result.tsumm) = 2
    /\ result.tsumm[1][1] = testcases[1].id
    /\ result.tsumm[2][1] = testcases[2].id

\* C10: no two evaluate calls of one run use the same working directory.
C10_DistinctWorkingDirs ==
    \A i, j \in 1..Len(usedDirs) : i # j => usedDirs[i] # usedDirs[j]

\* C11: when main is run twice on the same archive, the same fixtures and the
\* same extractdir, with commands that answer the same way whenever they are
\* given the same thing to do, the second run returns the results of the
\* first (same stage failure, same outcomes, same score), whatever the first
\* run left in the working directory.
C11_SameResultBothTimes ==
    (earlier # None /\ mpc = "report") => results = Val(earlier)

\* C12: once extraction succeeded build_subm runs make clean and then make,
\* make also after a make clean that exited non-zero; MakeError is recorded
\* if and only if make exited non-zero, whatever make clean returned.
C12_BuildFailsIffMakeFails ==
    /\ \A k \in 1..Len(cmdlog) :
         /\ cmdlog[k].cmd = "make clean" =>
              k < Len(cmdlog) /\ cmdlog[k + 1].cmd = "make"
         /\ cmdlog[k].cmd = "make" => k > 1 /\ cmdlog[k - 1].cmd = "make clean"
    /\ (RanOk("tar") /\ epc # "build") => RanFor(0, "make clean") /\ RanFor(0, "make")
    /\ RanFailed("make") => Returned /\ result.error_obj = Some("MakeError")
    /\ RanOk("make") => result.error_obj # Some("MakeError")
    /\ (Returned /\ result.error_obj = Some("MakeError")) => RanFailed("make")

C12_Witness ==
    /\ Returned
    /\ RanFailed("make clean")
    /\ RanOk("make")
    /\ result.error_obj = None
    /\ Len(result.tsumm) = Len(testcases)
    /\ Len(testcases) >= 1

\* the places of a listing that hold an entry named a.out
NamedAOut(files) == { i \in 1..Len(files) : files[i].name = "a.out" }

\* the places of a listing that hold an executable regular file
RegularExec(files) == { i \in 1..Len(files) : files[i].isfile /\ files[i].exec }

\* the entry of a listing that has the name given
Entry(files, name) == files[CHOOSE i \in 1..Len(files) : files[i].name = name]

\* what C13 and its amended form share: a.out is returned whenever an entry
\* has that name; otherwise the first executable regular file of the listing
\* is; None (BinaryNotFound) comes exactly when there is neither.
FindsAOutElseFirstExec(files, found) ==
    /\ NamedAOut(files) # { } => found = Some("a.out")
    /\ (NamedAOut(files) = { } /\ RegularExec(files) # { }) =>
         LET first == CHOOSE i \in RegularExec(files) :
                          \A j \in RegularExec(files) : i <= j
         IN  found = Some(files[first].name)
    /\ found = None <=> (NamedAOut(files) = { } /\ RegularExec(files) = { })
    /\ found # None => \E i \in 1..Len(files) : files[i].name = Val(found)

Matching(zip) ==
    { k \in 1..Len(zip) : Len(zip[k]) > 0 /\ Search(zip[k][1]) # None }

\* C14: in batch mode extract_submissions returns, in listing order, one
\* record for each subdirectory whose first listed file has a match of the
\* roll-number pattern in its name, the identifier being that match in lower
\* case; an empty subdirectory and one whose first file does not match give
\* no record, so there are as many records as matching subdirectories.
C14_OneRecordPerMatchingSubdir ==
    (mode = "b" /\ mpc \in { "loop", "report" }) =>
        LET zip == src.listing
        IN  /\ Len(submissions) = Cardinality(Matching(zip))
            /\ \A i \in 1..Len(submissions) :
                 LET k == submissions[i].tarpath.subdir
                     rollno == submissions[i].rollno
                 IN  /\ k \in Matching(zip)
                     /\ submissions[i].tarpath.tarname = zip[k][1]
                     /\ \E p \in 1..Len(zip[k][1]) :
                          /\ MatchesAt(zip[k][1], p)
                          /\ rollno = Lower(SubSeq(zip[k][1], p, p + 7))
                     /\ \A c \in 1..Len(rollno) : rollno[c] \notin { "B", "C", "S" }
            /\ \A i, j \in 1..Len(submissions) :
                 i < j => submissions[i].tarpath.subdir < submissions[j].tarpath.subdir

C14_Witness ==
    /\ mode = "b"
    /\ mpc = "loop"
    /\ src.listing = << << NameShort, NameUpper >>, << NameUpper >> >>
    /\ Len(submissions) = 1
    /\ submissions[1].rollno = Lower(NameUpper)
    /\ submissions[1].tarpath.subdir = 2

\* C15: run always returns a value; when a command exits non-zero the value
\* holds that command's exit code, its captured text as error output and no
\* output; when every command exits 0 the value holds exit code 0, the
\* captured text of the last command as output and no error output.
C15_FailureIsReturnedAsValue ==
    (rres # None /\ Len(rcmds) >= 1) =>
        LET r == Val(rres)
            fails == { k \in 1..Len(rcmds) : rcmds[k].code # 0 }
        IN  IF fails = { }
            THEN /\ r.ret = Some(0)
                 /\ r.out = Some(rcmds[Len(rcmds)].text)
                 /\ r.err = None
            ELSE LET k == CHOOSE j \in fails : \A l \in fails : j <= l
                 IN  /\ r.ret = Some(rcmds[k].code)
                     /\ r.ret # Some(0)
                     /\ r.err = Some(rcmds[k].text)
                     /\ r.out = None

C15_Witness ==
    /\ rres # None
    /\ Len(rcmds) = 2
    /\ rcmds[1] = [ code |-> 0, text |-> << >> ]
    /\ rcmds[2] = [ code |-> 2, text |-> << "d" >> ]
    /\ Val(rres).ret = Some(2)
    /\ Val(rres).err = Some(<< "d" >>)
    /\ Val(rres).out = None

\* C16: no fixture is served by a file another fixture left: the third
\* command of a fixture (run generated.out and compare) is issued only right
\* after the first and second commands of that same fixture succeeded, and
\* the binary the first command of a fixture runs is not a file that the
\* second command of an earlier fixture built.
C16_NoArtifactOfAnotherFixture ==
    \A k \in 1..Len(cmdlog) :
        /\ cmdlog[k].cmd = "cmd3" =>
             /\ k >= 3
             /\ cmdlog[k - 1].cmd = "cmd2" /\ cmdlog[k - 1].ok
             /\ cmdlog[k - 1].test = cmdlog[k].test
             /\ cmdlog[k - 2].cmd = "cmd1" /\ cmdlog[k - 2].ok
             /\ cmdlog[k - 2].test = cmdlog[k].test
        /\ cmdlog[k].cmd = "cmd1" =>
             ~(/\ bin_path = Some("generated.out")
               /\ \E j \in 1..(k - 1) :
                    /\ cmdlog[j].cmd = "cmd2"
                    /\ cmdlog[j].ok
                    /\ cmdlog[j].test # cmdlog[k].test)

\* the comments make_comment has for a stage failure
StageComments == { StageComment(e) : e \in TypedErrors }

\* C17: every failure evaluate records is of one of the exception classes the
\* report knows, and make_comment gives the comment of that class for it.
C17_FailuresAreTyped ==
    \A i \in 1..Len(results) :
        results[i].error_obj # None =>
            /\ Val(results[i].error_obj) \in TypedErrors
            /\ MakeComment(results[i]) \in StageComments

\* C18: every command that runs code of the submission (make clean, make and
\* the first command of a fixture) is issued with every name of
\* disabled_cmds turned into a no-op by the shell prefix.
C18_SubmissionCodeRunsStubbed ==
    \A k \in 1..Len(cmdlog) :
        cmdlog[k].cmd \in { "make clean", "make", "cmd1" } =>
            disabled_cmds \subseteq cmdlog[k].stubs

\* C19: the working directory of the process is the one the program was
\* started in whenever build_subm is not running: after it returned and
\* after it raised MakeError alike, and so when the next evaluate starts.
C19_WorkingDirectoryRestored ==
    /\ cwd = StartDir
    /\ subm_path # None => cwd # Val(subm_path)

C19_Witness ==
    /\ Returned
    /\ RanOk("make clean")
    /\ RanFailed("make")
    /\ result.error_obj = Some("MakeError")
    /\ cwd = StartDir

\* C20: a result without a failure has nb_tests = number of fixtures,
\* passed + failed = nb_tests, passed = number of outcomes that are true and
\* score = 0.5 x passed; a result with a failure has nb_tests, passed, failed
\* and score all None.
C20_SummaryAllOrNothing ==
    \A i \in 1..Len(results) :
        LET r == results[i]
        IN  IF r.error_obj = None
            THEN /\ r.nb_tests = Some(Len(testcases))
                 /\ r.passed # None
                 /\ r.failed # None
                 /\ Val(r.passed) + Val(r.failed) = Val(r.nb_tests)
                 /\ Val(r.passed) = Passes(r.tsumm)
                 /\ r.score = Some(HalfMark * Val(r.passed))
            ELSE /\ r.nb_tests = None
                 /\ r.passed = None
                 /\ r.failed = None
                 /\ r.score = None

C20_Witness ==
    /\ Returned
    /\ result.error_obj = None
    /\ result.nb_tests = Some(2)
    /\ result.passed = Some(1)
    /\ result.failed = Some(1)
    /\ result.score = Some(HalfMark)

====
